---- MODULE Spec2Model ----
(***************************************************************************)
(* Year in Pixels (year_in_pixels.py): the mood vocabulary, the daily      *)
(* entry, the CSV file read by read_days_from_file, the year chart built   *)
(* by display_year, and the two commands of __main__ (render, log) run as  *)
(* one or two invocations against one file path.                           *)
(*                                                                         *)
(* A text that the program parses is a sequence of one-character strings;  *)
(* a CSV line is the record of its three fields; a file is the sequence of *)
(* its lines, the header line included.                                    *)
(***************************************************************************)
EXTENDS Integers, Sequences, FiniteSets, TLC

\* ------------------------------------------------------------------ bounds
\* Longest file (data rows, header not counted) that exists before the run.
MaxRows == 3
\* Longest list handed to display_year when it is called directly.
MaxDays == 2
\* Invocations run one after the other against the same path.
MaxRuns == 2

\* ------------------------------------------------------- colors and moods
pink == <<255, 0, 255>>
lblue == <<0, 255, 255>>
mblue == <<0, 0, 255>>
green == <<0, 255, 0>>
navy == <<0, 0, 128>>
yellow == <<255, 255, 0>>
orange == <<255, 165, 0>>
black == <<0, 0, 0>>

\* The members of the enumeration, each with its name, desc and color.
DayMood ==
  { [name |-> "amazing", desc |-> "amazing, fantastic day", color |-> pink],
    [name |-> "good", desc |-> "really good, happy day", color |-> lblue],
    [name |-> "normal", desc |-> "normal, average day", color |-> mblue],
    [name |-> "tired", desc |-> "exhausted, tired day", color |-> green],
    [name |-> "sad", desc |-> "depressed, sad day", color |-> navy],
    [name |-> "angry", desc |-> "frustrated, angry day", color |-> yellow],
    [name |-> "stressed", desc |-> "stressed out, frantic day", color |-> orange] }

\* DayMood[s] raises KeyError exactly when s names no member.
IsMoodName(s) == \E m \in DayMood : m.name = s
MoodByName(s) == CHOOSE m \in DayMood : m.name = s

\* DayEntry(date, mood, comment)
DayEntry(date, mood, comment) ==
  [date |-> date, mood |-> mood, comment |-> comment]

\* ------------------------------------------------------------------ dates
Digits == {"0", "1", "2", "3", "4", "5", "6", "7", "8", "9"}
DigitVal ==
  ("0" :> 0) @@ ("1" :> 1) @@ ("2" :> 2) @@ ("3" :> 3) @@ ("4" :> 4) @@
  ("5" :> 5) @@ ("6" :> 6) @@ ("7" :> 7) @@ ("8" :> 8) @@ ("9" :> 9)
DigitChar == [n \in 0..9 |-> CHOOSE c \in Digits : DigitVal[c] = n]

AllDigits(s) == \A i \in 1..Len(s) : s[i] \in Digits

RECURSIVE NumVal(_)
NumVal(s) ==
  IF s = <<>> THEN 0
  ELSE 10 * NumVal(SubSeq(s, 1, Len(s) - 1)) + DigitVal[s[Len(s)]]

IsLeap(y) == (y % 4 = 0 /\ y % 100 # 0) \/ y % 400 = 0
DaysInMonth(y, m) ==
  IF m = 2 THEN (IF IsLeap(y) THEN 29 ELSE 28)
  ELSE IF m \in {4, 6, 9, 11} THEN 30 ELSE 31

\* The place of the second "-" of a text shaped %Y-%m-%d, 0 when it has none
\* where the format allows one.
SecondDash(s) ==
  IF Len(s) >= 7 /\ s[7] = "-" THEN 7
  ELSE IF Len(s) >= 8 /\ s[8] = "-" THEN 8
  ELSE 0

MonthText(s) == SubSeq(s, 6, SecondDash(s) - 1)
DayText(s) == SubSeq(s, SecondDash(s) + 1, Len(s))

\* %m: 1[0-2] | 0[1-9] | [1-9]
MatchesMonth(t) ==
  /\ Len(t) \in {1, 2}
  /\ AllDigits(t)
  /\ NumVal(t) \in 1..12
\* %d: 3[0-1] | [1-2]\d | 0[1-9] | [1-9] | " "[1-9]
MatchesDay(t) ==
  \/ /\ Len(t) \in {1, 2}
     /\ AllDigits(t)
     /\ NumVal(t) \in 1..31
  \/ /\ Len(t) = 2
     /\ t[1] = " "
     /\ t[2] \in Digits \ {"0"}
DayVal(t) == IF t[1] = " " THEN DigitVal[t[2]] ELSE NumVal(t)

\* datetime.strptime(s, '%Y-%m-%d') matches the whole text.
MatchesFormat(s) ==
  /\ Len(s) >= 8
  /\ AllDigits(SubSeq(s, 1, 4))
  /\ s[5] = "-"
  /\ SecondDash(s) # 0
  /\ MatchesMonth(MonthText(s))
  /\ MatchesDay(DayText(s))

\* date_from_iso(s) raises ValueError exactly when this is FALSE.
IsIsoDate(s) ==
  /\ MatchesFormat(s)
  /\ NumVal(SubSeq(s, 1, 4)) >= 1
  /\ DayVal(DayText(s)) <= DaysInMonth(NumVal(SubSeq(s, 1, 4)), NumVal(MonthText(s)))

date_from_iso(s) ==
  [year |-> NumVal(SubSeq(s, 1, 4)),
   month |-> NumVal(MonthText(s)),
   day |-> DayVal(DayText(s))]

\* str(date): the year on four digits, the month and the day on two.
Pad2(n) == <<DigitChar[n \div 10], DigitChar[n % 10]>>
DateStr(d) ==
  <<DigitChar[d.year \div 1000], DigitChar[(d.year \div 100) % 10],
    DigitChar[(d.year \div 10) % 10], DigitChar[d.year % 10]>>
  \o <<"-">> \o Pad2(d.month) \o <<"-">> \o Pad2(d.day)

\* date.today(), fixed for the run.
Today == [year |-> 2019, month |-> 2, day |-> 3]


\* ---------------------------------------------------------------- the file
\* One CSV line: its date, mood and comment fields.
Line(date, mood, comment) ==
  [date |-> date, mood |-> mood, comment |-> comment]
\* fieldnames = ['date', 'mood', 'comment'], as writeheader() writes them.
HeaderLine == Line(<<"d", "a", "t", "e">>, "mood", "comment")
\* What a read finds where a write past the end of a file left a gap.
HoleLine == Line(<<"NUL">>, "", "")

\* DayEntry.to_dict(), as csv.DictWriter writes it.
to_dict(d) == Line(DateStr(d.date), d.mood.name, d.comment)

\* The write of one line at offset pos (counted in lines) of a file.
WriteAt(content, pos, line) ==
  IF pos < Len(content)
  THEN [content EXCEPT ![pos + 1] = line]
  ELSE content \o [i \in 1..(pos - Len(content)) |-> HoleLine] \o <<line>>

\* --------------------------------------------------------- the environment
\* tempfile.gettempdir(): TMPDIR, or the system's default.
TempDirs == {"/tmp", "/var/tmp"}
\* The directory of args.file.
TargetDirs == {"/tmp", "/home/user"}
\* The filesystem each directory is on.
FsOf == ("/tmp" :> "tmpfs") @@ ("/var/tmp" :> "disk") @@ ("/home/user" :> "disk")

Procs == {1, 2}
\* The inodes: the file that was at the path before, each invocation's
\* temporary file, and a file that a copy creates at the path.
NoFile == "none"
Orig == "orig"
Dst == "dst"
Tmp(p) == IF p = 1 THEN "tmp1" ELSE "tmp2"
Inodes == {Orig, Dst, Tmp(1), Tmp(2)}

\* An optional value: a variable not assigned yet, or its value.
None == <<>>
Some(x) == <<x>>
Val(o) == o[1]

VARIABLES
  tmpdir,      \* the directory NamedTemporaryFile creates its file in
  target_dir,  \* the directory of args.file
  target,      \* the inode the path args.file names, or NoFile
  files,       \* inode -> content, the sequence of its lines
  old,         \* the content at the path before the run (<<>>: no file)
  cmd,         \* args.command of each invocation
  stdin,       \* the three lines the user types
  pc,          \* where each invocation is
  outcome,     \* "running", "ok", "exit1" or the uncaught exception
  prompts,     \* the questions asked so far
  day,         \* the entry enter_daily_data returned
  fd,          \* the inode read_days_from_file has open
  rpos,        \* the lines it has read
  fieldnames,  \* the header line the reader took its field names from
  rows,        \* the list the comprehension has built so far
  days,        \* the variable days
  wpos,        \* the rows written to the temporary file
  cfd,         \* the inode shutil.move's copy has open for writing
  cpos,        \* the lines it has copied
  X,           \* the matrix handed to imshow
  replaced,    \* the invocations whose move completed, in that order
  runs         \* the invocations started so far, one after the other

vars ==
  <<tmpdir, target_dir, target, files, old, cmd, stdin, pc, outcome, prompts,
    day, fd, rpos, fieldnames, rows, days, wpos, cfd, cpos, X, replaced, runs>>

env == <<tmpdir, target_dir, old, cmd, stdin, runs>>

Running(p, at) == outcome[p] = "running" /\ pc[p] = at

\* Whether os.rename can move the temporary file onto the path.
SameFs == FsOf[tmpdir] = FsOf[target_dir]

\* ------------------------------------------------------------ display_year
w == 12
h == 31

RECURSIVE Paint(_, _)
\* The loop of display_year over the days left, first to last.
Paint(M, ds) ==
  IF ds = <<>> THEN M
  ELSE Paint([M EXCEPT ![Head(ds).date.day - 1][Head(ds).date.month - 1] =
                Head(ds).mood.color],
             Tail(ds))

RECURSIVE Reversed(_)
Reversed(ds) ==
  IF ds = <<>> THEN <<>> ELSE Append(Reversed(Tail(ds)), Head(ds))

\* display_year with the days painted last to first.
display_year_first_wins(ds) ==
  Paint([y \in 0..(h - 1) |-> [x \in 0..(w - 1) |-> black]], Reversed(ds))

display_year(ds) ==
  Paint([y \in 0..(h - 1) |-> [x \in 0..(w - 1) |-> black]], ds)

\* --------------------------------------------------------- filter, append
\* days = list(filter(lambda d: d.date != day.date, days)); days.append(day)
Differs(e, d) == d.date # e.date
\* The append without the filter.
AppendOnly(ds, e) == Append(ds, e)

DateBefore(a, b) ==
  \/ a.year < b.year
  \/ a.year = b.year /\ a.month < b.month
  \/ a.year = b.year /\ a.month = b.month /\ a.day < b.day

\* The filter with the new entry put first when an entry of a later date is
\* kept, as a re-sort by date would.
FilterInsertByDate(ds, e) ==
  LET kept == SelectSeq(ds, LAMBDA d : Differs(e, d)) IN
  IF \E i \in 1..Len(kept) : DateBefore(e.date, kept[i].date)
  THEN <<e>> \o kept
  ELSE Append(kept, e)

FilterAppend(ds, e) ==
  Append(SelectSeq(ds, LAMBDA d : Differs(e, d)), e)


\* ------------------------------------------------------ enter_daily_data
\* The typed date is taken when it is empty (today) or parses; the typed
\* mood when it names a member.
DateAccepted(in) == in.date = <<>> \/ IsIsoDate(in.date)
MoodAccepted(in) == IsMoodName(in.mood)

\* enter_daily_data with a date that does not parse replaced by today
\* instead of ending the program.
enter_daily_data_default_today(in) ==
  IF ~MoodAccepted(in)
  THEN [asked |-> <<"date", "mood">>, exit |-> TRUE, entry |-> None]
  ELSE [asked |-> <<"date", "mood", "comment">>, exit |-> FALSE,
        entry |-> Some(DayEntry(IF DateAccepted(in) /\ in.date # <<>>
                                THEN date_from_iso(in.date) ELSE Today,
                                MoodByName(in.mood), in.comment))]

\* enter_daily_data() on the typed lines `in`: the questions it asks and
\* what ends it, exit(1) or the entry it returns.
enter_daily_data(in) ==
  IF ~DateAccepted(in)
  THEN [asked |-> <<"date">>, exit |-> TRUE, entry |-> None]
  ELSE IF ~MoodAccepted(in)
  THEN [asked |-> <<"date", "mood">>, exit |-> TRUE, entry |-> None]
  ELSE [asked |-> <<"date", "mood", "comment">>, exit |-> FALSE,
        entry |-> Some(DayEntry(IF in.date = <<>> THEN Today
                                ELSE date_from_iso(in.date),
                                MoodByName(in.mood), in.comment))]

\* day = enter_daily_data(), then the two prints of the entry.
EnterDailyData(p) ==
  /\ Running(p, "enter")
  /\ LET r == enter_daily_data(stdin[p]) IN
     /\ prompts' = [prompts EXCEPT ![p] = r.asked]
     /\ day' = [day EXCEPT ![p] = r.entry]
     /\ outcome' = [outcome EXCEPT ![p] = IF r.exit THEN "exit1" ELSE @]
     /\ pc' = [pc EXCEPT ![p] = IF r.exit THEN @ ELSE "open"]
  /\ UNCHANGED <<env, target, files, fd, rpos, fieldnames, rows, days, wpos,
                 cfd, cpos, X, replaced>>

\* ---------------------------------------------------- read_days_from_file
\* open(file, newline=''): FileNotFoundError when the path names nothing.
\* The log command catches it (days = []); the render command does not.
OpenFile(p) ==
  /\ Running(p, "open")
  /\ IF target = NoFile
     THEN /\ IF cmd[p] = "log"
             THEN /\ days' = [days EXCEPT ![p] = Some(<<>>)]
                  /\ pc' = [pc EXCEPT ![p] = "filter"]
                  /\ UNCHANGED outcome
             ELSE /\ outcome' = [outcome EXCEPT ![p] = "FileNotFoundError"]
                  /\ UNCHANGED <<days, pc>>
          /\ UNCHANGED fd
     ELSE /\ fd' = [fd EXCEPT ![p] = target]
          /\ pc' = [pc EXCEPT ![p] = "read"]
          /\ UNCHANGED <<days, outcome>>
  /\ UNCHANGED <<env, target, files, prompts, day, rpos, fieldnames, rows,
                 wpos, cfd, cpos, X, replaced>>

\* The exception a data line raises in the comprehension, "" when it parses:
\* row['date'] with no such field, date_from_iso, then DayMood[...].
RowError(names, line) ==
  IF names # Some(HeaderLine) THEN "KeyError"
  ELSE IF ~IsIsoDate(line.date) THEN "ValueError"
  ELSE IF ~IsMoodName(line.mood) THEN "KeyError"
  ELSE ""

RowEntry(line) ==
  DayEntry(date_from_iso(line.date), MoodByName(line.mood), line.comment)

\* The reader with a line that does not parse skipped instead of raising.
ReadRowSkipsBad(p) ==
  /\ Running(p, "read")
  /\ LET content == files[fd[p]] IN
     IF rpos[p] >= Len(content)
     THEN /\ days' = [days EXCEPT ![p] = Some(rows[p])]
          /\ pc' = [pc EXCEPT ![p] = IF cmd[p] = "log" THEN "filter" ELSE "render"]
          /\ UNCHANGED <<rpos, fieldnames, rows>>
     ELSE IF fieldnames[p] = None
     THEN /\ fieldnames' = [fieldnames EXCEPT ![p] = Some(content[rpos[p] + 1])]
          /\ rpos' = [rpos EXCEPT ![p] = @ + 1]
          /\ UNCHANGED <<days, pc, rows>>
     ELSE LET line == content[rpos[p] + 1] IN
          /\ rows' = [rows EXCEPT ![p] =
                        IF RowError(fieldnames[p], line) # "" THEN @
                        ELSE Append(@, RowEntry(line))]
          /\ rpos' = [rpos EXCEPT ![p] = @ + 1]
          /\ UNCHANGED <<days, pc, fieldnames>>
  /\ UNCHANGED <<env, target, files, outcome, prompts, day, fd, wpos, cfd,
                 cpos, X, replaced>>

\* One step of the reader: the header line, one data line, or the end of
\* the file, where the comprehension's list is returned.
ReadRow(p) ==
  /\ Running(p, "read")
  /\ LET content == files[fd[p]] IN
     IF rpos[p] >= Len(content)
     THEN /\ days' = [days EXCEPT ![p] = Some(rows[p])]
          /\ pc' = [pc EXCEPT ![p] = IF cmd[p] = "log" THEN "filter" ELSE "render"]
          /\ UNCHANGED <<rpos, fieldnames, rows, outcome>>
     ELSE IF fieldnames[p] = None
     THEN /\ fieldnames' = [fieldnames EXCEPT ![p] = Some(content[rpos[p] + 1])]
          /\ rpos' = [rpos EXCEPT ![p] = @ + 1]
          /\ UNCHANGED <<days, pc, rows, outcome>>
     ELSE LET line == content[rpos[p] + 1] IN
          IF RowError(fieldnames[p], line) # ""
          THEN /\ outcome' = [outcome EXCEPT ![p] = RowError(fieldnames[p], line)]
               /\ rpos' = [rpos EXCEPT ![p] = @ + 1]
               /\ UNCHANGED <<days, pc, fieldnames, rows>>
          ELSE /\ rows' = [rows EXCEPT ![p] = Append(@, RowEntry(line))]
               /\ rpos' = [rpos EXCEPT ![p] = @ + 1]
               /\ UNCHANGED <<days, pc, fieldnames, outcome>>
  /\ UNCHANGED <<env, target, files, prompts, day, fd, wpos, cfd, cpos, X,
                 replaced>>

\* ------------------------------------------------------------------ render
\* if days: display_year(days)
Render(p) ==
  /\ Running(p, "render")
  /\ X' = [X EXCEPT ![p] =
             IF Val(days[p]) # <<>> THEN Some(display_year(Val(days[p]))) ELSE @]
  /\ outcome' = [outcome EXCEPT ![p] = "ok"]
  /\ UNCHANGED <<env, target, files, pc, prompts, day, fd, rpos, fieldnames,
                 rows, days, wpos, cfd, cpos, replaced>>

\* display_year(days), called with a list of the caller's own.
DisplayYear(p) ==
  /\ Running(p, "display")
  /\ X' = [X EXCEPT ![p] = Some(display_year(Val(days[p])))]
  /\ outcome' = [outcome EXCEPT ![p] = "ok"]
  /\ UNCHANGED <<env, target, files, pc, prompts, day, fd, rpos, fieldnames,
                 rows, days, wpos, cfd, cpos, replaced>>

\* --------------------------------------------------------------------- log
FilterAndAppend(p) ==
  /\ Running(p, "filter")
  /\ days' = [days EXCEPT ![p] = Some(FilterAppend(Val(@), Val(day[p])))]
  /\ pc' = [pc EXCEPT ![p] = "mktemp"]
  /\ UNCHANGED <<env, target, files, outcome, prompts, day, fd, rpos,
                 fieldnames, rows, wpos, cfd, cpos, X, replaced>>

\* tempfile.NamedTemporaryFile(delete=False, newline='', mode='w'): a new
\* empty file in tempfile.gettempdir().
CreateTemp(p) ==
  /\ Running(p, "mktemp")
  /\ files' = [files EXCEPT ![Tmp(p)] = <<>>]
  /\ pc' = [pc EXCEPT ![p] = "header"]
  /\ UNCHANGED <<env, target, outcome, prompts, day, fd, rpos, fieldnames,
                 rows, days, wpos, cfd, cpos, X, replaced>>

\* writer.writeheader()
WriteHeader(p) ==
  /\ Running(p, "header")
  /\ files' = [files EXCEPT ![Tmp(p)] = Append(@, HeaderLine)]
  /\ pc' = [pc EXCEPT ![p] = "rows"]
  /\ UNCHANGED <<env, target, outcome, prompts, day, fd, rpos, fieldnames,
                 rows, days, wpos, cfd, cpos, X, replaced>>

\* for d in days: writer.writerow(d.to_dict()); days holds the new entry, so
\* the loop runs at least once.
WriteRow(p) ==
  /\ Running(p, "rows")
  /\ wpos[p] < Len(Val(days[p]))
  /\ files' = [files EXCEPT ![Tmp(p)] = Append(@, to_dict(Val(days[p])[wpos[p] + 1]))]
  /\ wpos' = [wpos EXCEPT ![p] = @ + 1]
  /\ pc' = [pc EXCEPT ![p] = IF wpos[p] + 1 = Len(Val(days[p])) THEN "close" ELSE @]
  /\ UNCHANGED <<env, target, outcome, prompts, day, fd, rpos, fieldnames,
                 rows, days, cfd, cpos, X, replaced>>

\* The end of the with block: the temporary file is flushed and closed.
CloseTemp(p) ==
  /\ Running(p, "close")
  /\ pc' = [pc EXCEPT ![p] = "move"]
  /\ UNCHANGED <<env, target, files, outcome, prompts, day, fd, rpos,
                 fieldnames, rows, days, wpos, cfd, cpos, X, replaced>>

\* Where a step on the temporary file raises OSError (disk full, permission
\* denied): creating it, the header, a row, the close.
TempStages == {"mktemp", "header", "rows", "close"}
\* The failure swallowed, and the move run all the same.
WriteFailsThenMoves(p) ==
  /\ outcome[p] = "running"
  /\ pc[p] \in TempStages
  /\ pc' = [pc EXCEPT ![p] = "move"]
  /\ UNCHANGED <<env, target, files, outcome, prompts, day, fd, rpos,
                 fieldnames, rows, days, wpos, cfd, cpos, X, replaced>>

\* The exception leaves the with block and ends the program: pc stays where
\* the step failed, and line 218 is not reached.
WriteFails(p) ==
  /\ outcome[p] = "running"
  /\ pc[p] \in TempStages
  /\ outcome' = [outcome EXCEPT ![p] = "OSError"]
  /\ UNCHANGED <<env, target, files, pc, prompts, day, fd, rpos, fieldnames,
                 rows, days, wpos, cfd, cpos, X, replaced>>

\* shutil.move(csvout.name, args.file): os.rename where it can, else the
\* start of copy2: the destination is opened for writing, which creates it
\* or cuts it to nothing.
Move(p) ==
  /\ Running(p, "move")
  /\ IF SameFs
     THEN /\ target' = Tmp(p)
          /\ replaced' = Append(replaced, p)
          /\ outcome' = [outcome EXCEPT ![p] = "ok"]
          /\ UNCHANGED <<files, pc, cfd>>
     ELSE /\ target' = IF target = NoFile THEN Dst ELSE target
          /\ files' = [files EXCEPT ![target'] = <<>>]
          /\ cfd' = [cfd EXCEPT ![p] = target']
          /\ pc' = [pc EXCEPT ![p] = "copy"]
          /\ UNCHANGED <<replaced, outcome>>
  /\ UNCHANGED <<env, prompts, day, fd, rpos, fieldnames, rows, days, wpos,
                 cpos, X>>

RECURSIVE WriteLines(_, _, _)
\* The lines ls written one after the other from offset pos on.
WriteLines(content, pos, ls) ==
  IF ls = <<>> THEN content
  ELSE WriteLines(WriteAt(content, pos, Head(ls)), pos + 1, Tail(ls))

\* One write of the copy: the next k lines of the temporary file, at the
\* copy's own offset in the destination.
CopyChunk(p) ==
  /\ Running(p, "copy")
  /\ LET src == files[Tmp(p)] IN
     \E k \in 1..(Len(src) - cpos[p]) :
       /\ files' = [files EXCEPT ![cfd[p]] =
                      WriteLines(@, cpos[p], SubSeq(src, cpos[p] + 1, cpos[p] + k))]
       /\ cpos' = [cpos EXCEPT ![p] = @ + k]
       /\ pc' = [pc EXCEPT ![p] = IF cpos[p] + k = Len(src) THEN "unlink" ELSE @]
  /\ UNCHANGED <<env, target, outcome, prompts, day, fd, rpos, fieldnames,
                 rows, days, wpos, cfd, X, replaced>>

\* The end of the move by copy: os.unlink(src).
Unlink(p) ==
  /\ Running(p, "unlink")
  /\ files' = [files EXCEPT ![Tmp(p)] = <<>>]
  /\ replaced' = Append(replaced, p)
  /\ outcome' = [outcome EXCEPT ![p] = "ok"]
  /\ UNCHANGED <<env, target, pc, prompts, day, fd, rpos, fieldnames, rows,
                 days, wpos, cfd, cpos, X>>


\* ------------------------------------------------------------------ inputs
Seqs(S, n) == UNION {[1..k -> S] : k \in 0..n}

T_2019_01_14 == <<"2", "0", "1", "9", "-", "0", "1", "-", "1", "4">>
T_2019_02_03 == <<"2", "0", "1", "9", "-", "0", "2", "-", "0", "3">>
T_2020_1_14 == <<"2", "0", "2", "0", "-", "1", "-", "1", "4">>
T_2019_13_40 == <<"2", "0", "1", "9", "-", "1", "3", "-", "4", "0">>

\* The data lines a file may hold before the run: three that parse (the
\* third on the day and month of the first, a year later), one whose date
\* does not parse, one whose mood is no member's name.
FileLines ==
  { Line(T_2019_01_14, "amazing", "great day!"),
    Line(T_2019_02_03, "tired", ""),
    Line(T_2020_1_14, "sad", ""),
    Line(T_2019_13_40, "good", ""),
    Line(T_2019_02_03, "weird", "") }

\* No file, or the header and up to MaxRows data lines.
FilesBefore ==
  {<<>>} \cup {<<HeaderLine>> \o r : r \in Seqs(FileLines, MaxRows)}

\* What the user types at the three questions of the log command.
NoInput == Line(<<>>, "", "")
Typed ==
  { Line(<<>>, "normal", ""),
    Line(T_2019_01_14, "good", "fine"),
    Line(T_2019_13_40, "good", ""),
    Line(T_2019_01_14, "weird", ""),
    Line(<<>>, "Amazing", "") }

\* --------------------------------------------------------------- one run
\* The start of a run with the content o at the path: nothing asked, read
\* or written yet.
StartPc(c) ==
  [p \in Procs |->
     IF c[p] = "log" THEN "enter"
     ELSE IF c[p] = "render" THEN "open"
     ELSE IF c[p] = "display_year" THEN "display" ELSE "none"]
StartOutcome(c) ==
  [p \in Procs |-> IF c[p] = "none" THEN "absent" ELSE "running"]
StartFiles(o) == [i \in Inodes |-> IF i = Orig THEN o ELSE <<>>]
StartTarget(o) == IF o = <<>> THEN NoFile ELSE Orig

Fresh(o, c) ==
  /\ target = StartTarget(o)
  /\ files = StartFiles(o)
  /\ pc = StartPc(c)
  /\ outcome = StartOutcome(c)
  /\ prompts = [p \in Procs |-> <<>>]
  /\ day = [p \in Procs |-> None]
  /\ fd = [p \in Procs |-> NoFile]
  /\ rpos = [p \in Procs |-> 0]
  /\ fieldnames = [p \in Procs |-> None]
  /\ rows = [p \in Procs |-> <<>>]
  /\ wpos = [p \in Procs |-> 0]
  /\ cfd = [p \in Procs |-> NoFile]
  /\ cpos = [p \in Procs |-> 0]
  /\ X = [p \in Procs |-> None]
  /\ replaced = <<>>

\* The command lines of one invocation and what is typed at each.
OneCommand == {c \in [Procs -> {"render", "log", "none"}] : c[1] # "none" /\ c[2] = "none"}
TypedFor(c) ==
  {i \in [Procs -> Typed \cup {NoInput}] :
     \A p \in Procs : (i[p] = NoInput) <=> (c[p] # "log")}

\* One invocation, render or log, of a file that may hold anything.
Init ==
  /\ tmpdir \in TempDirs
  /\ target_dir \in TargetDirs
  /\ old \in FilesBefore
  /\ cmd \in OneCommand
  /\ stdin \in TypedFor(cmd)
  /\ runs = 1
  /\ days = [p \in Procs |-> None]
  /\ Fresh(old, cmd)

\* The content at the path now (<<>>: no file).
AtPath == IF target = NoFile THEN <<>> ELSE files[target]

\* The program is run again once the run before has ended, against what
\* that run left at the path.
NewInvocation ==
  /\ runs < MaxRuns
  /\ cmd \in OneCommand
  /\ \A p \in Procs : outcome[p] # "running"
  /\ runs' = runs + 1
  /\ old' = AtPath
  /\ cmd' \in OneCommand
  /\ stdin' \in TypedFor(cmd')
  /\ target' = StartTarget(old')
  /\ files' = StartFiles(old')
  /\ pc' = StartPc(cmd')
  /\ outcome' = StartOutcome(cmd')
  /\ prompts' = [p \in Procs |-> <<>>]
  /\ day' = [p \in Procs |-> None]
  /\ fd' = [p \in Procs |-> NoFile]
  /\ rpos' = [p \in Procs |-> 0]
  /\ fieldnames' = [p \in Procs |-> None]
  /\ rows' = [p \in Procs |-> <<>>]
  /\ days' = [p \in Procs |-> None]
  /\ wpos' = [p \in Procs |-> 0]
  /\ cfd' = [p \in Procs |-> NoFile]
  /\ cpos' = [p \in Procs |-> 0]
  /\ X' = [p \in Procs |-> None]
  /\ replaced' = <<>>
  /\ UNCHANGED <<tmpdir, target_dir>>

Step(p) ==
  \/ EnterDailyData(p)
  \/ OpenFile(p)
  \/ ReadRow(p)
  \/ Render(p)
  \/ FilterAndAppend(p)
  \/ CreateTemp(p)
  \/ WriteHeader(p)
  \/ WriteRow(p)
  \/ CloseTemp(p)
  \/ WriteFails(p)
  \/ Move(p)
  \/ CopyChunk(p)
  \/ Unlink(p)

Next ==
  \/ \E p \in Procs : Step(p)
  \/ NewInvocation

Spec == Init /\ [][Next]_vars


\* ------------------------------------------------- two invocations at once
T_2019_12_31 == <<"2", "0", "1", "9", "-", "1", "2", "-", "3", "1">>

\* The data lines of a file the program wrote before: each as to_dict
\* writes it.
WrittenLines ==
  { Line(T_2019_01_14, "amazing", "great day!"),
    Line(T_2019_02_03, "tired", ""),
    Line(T_2019_12_31, "angry", "") }

DistinctDateTexts(r) ==
  \A i, j \in 1..Len(r) : r[i].date = r[j].date => i = j

FilesWritten ==
  {<<>>} \cup {<<HeaderLine>> \o r :
                 r \in {q \in Seqs(WrittenLines, MaxRows) : DistinctDateTexts(q)}}

\* Invocation 1 logs 2019-01-14, invocation 2 renders or logs today.
TwoCommands == {c \in [Procs -> {"render", "log"}] : c[1] = "log"}
TypedByTwo(c) ==
  [p \in Procs |->
     IF c[p] # "log" THEN NoInput
     ELSE IF p = 1 THEN Line(T_2019_01_14, "good", "fine")
     ELSE Line(<<>>, "normal", "")]

InitConc ==
  /\ tmpdir \in TempDirs
  /\ target_dir \in TargetDirs
  /\ old \in FilesWritten
  /\ cmd \in TwoCommands
  /\ stdin = TypedByTwo(cmd)
  /\ runs = 1
  /\ days = [p \in Procs |-> None]
  /\ Fresh(old, cmd)

NextConc == \E p \in Procs : Step(p)

SpecConc == InitConc /\ [][NextConc]_vars

\* ------------------------------------------- display_year called directly
GridDates ==
  { [year |-> 2019, month |-> 1, day |-> 14],
    [year |-> 2020, month |-> 1, day |-> 14],
    [year |-> 2019, month |-> 12, day |-> 31],
    [year |-> 2019, month |-> 2, day |-> 1] }
GridEntries == {DayEntry(d, m, "") : d \in GridDates, m \in DayMood}

InitGrid ==
  /\ tmpdir \in {"/tmp"}
  /\ target_dir \in {"/tmp"}
  /\ old = <<>>
  /\ cmd = [p \in Procs |-> IF p = 1 THEN "display_year" ELSE "none"]
  /\ stdin = [p \in Procs |-> NoInput]
  /\ runs = 1
  /\ \E ds \in Seqs(GridEntries, MaxDays) :
       /\ Fresh(old, cmd)
       /\ days = [p \in Procs |-> IF p = 1 THEN Some(ds) ELSE None]

NextGrid == \E p \in Procs : DisplayYear(p)

SpecGrid == InitGrid /\ [][NextGrid]_vars


\* ================================================================== claims
Range(q) == {q[i] : i \in 1..Len(q)}

\* The whole file save writes for the entries ds: the header, then one line
\* per entry.
Complete(ds) == <<HeaderLine>> \o [i \in 1..Len(ds) |-> to_dict(ds[i])]

\* The path names what it named when the run started, with the same content.
PathUnchanged == target = StartTarget(old) /\ AtPath = old

SaveStages == {"mktemp", "header", "rows", "close", "move", "copy", "unlink"}
MoveStages == {"move", "copy", "unlink"}
\* The log command has its list and is at, or past, writing it out.
Saving(p) == cmd[p] = "log" /\ pc[p] \in SaveStages
Invoked(p) == cmd[p] \in {"render", "log"}

\* C1: a failure while the temporary file is written (before the header,
\* between two rows, after the last row but before the close) leaves the
\* path with exactly the content it had, and the temporary file is never
\* moved onto it; the path changes only in a move that started after every
\* row was written and the file was closed.
C1_SaveFailureLeavesTarget ==
  \A p \in Procs :
    /\ outcome[p] = "OSError" =>
         /\ PathUnchanged
         /\ p \notin Range(replaced)
         /\ cfd[p] = NoFile
    /\ (cmd[p] = "log" /\ ~PathUnchanged) =>
         /\ pc[p] \in MoveStages
         /\ outcome[p] # "OSError"
         /\ wpos[p] = Len(Val(days[p]))
    /\ Running(p, "move") => files[Tmp(p)] = Complete(Val(days[p]))

\* A write failed between two rows of a file that replaces an existing one.
C1_Witness ==
  \E p \in Procs :
    /\ outcome[p] = "OSError"
    /\ pc[p] = "rows"
    /\ wpos[p] >= 1
    /\ wpos[p] < Len(Val(days[p]))
    /\ old # <<>>

\* C2: the temporary file is created in the directory of the target path,
\* and the path goes from the complete old content to the complete new
\* content with nothing else in between.
C2_TempBesideTarget ==
  \A p \in Procs :
    Saving(p) =>
      /\ pc[p] # "mktemp" => tmpdir = target_dir
      /\ AtPath \in {old, Complete(Val(days[p]))}

\* What a reader has taken in: the header line, then the lines of the
\* entries it has built.
Observed(p) ==
  (IF fieldnames[p] = None THEN <<>> ELSE <<Val(fieldnames[p])>>)
    \o [i \in 1..Len(rows[p]) |-> to_dict(rows[p][i])]

\* C3: with a save and a read of the same path running at once, the reader
\* (render, or the load of log) gets either the complete content from before
\* the save or the complete content a save wrote, never part of a file.
C3_ReaderSeesWholeFile ==
  \A p \in Procs :
    fd[p] # NoFile =>
      /\ outcome[p] \notin {"ValueError", "KeyError"}
      /\ days[p] # None =>
           Observed(p) \in
             {old} \cup {Complete(Val(days[q])) : q \in {r \in Procs \ {p} : Saving(r)}}

\* How many entries of ds have the date d.
CountDate(ds, d) == Cardinality({i \in 1..Len(ds) : ds[i].date = d})

\* Every data line of the content parses, and no two have the same date.
OnePerDate(content) ==
  /\ \A i \in 2..Len(content) : RowError(Some(HeaderLine), content[i]) = ""
  /\ \A i, j \in 2..Len(content) :
       date_from_iso(content[i].date) = date_from_iso(content[j].date) => i = j

\* C4: the list the log command writes has exactly one entry of the new
\* entry's date, whatever the loaded list held (several entries of that date
\* included); and a path that held no file, or one entry per date, when a
\* run started holds at most one entry per date through it and after it.
C4_OneEntryPerDate ==
  /\ \A p \in Procs :
       Saving(p) => CountDate(Val(days[p]), Val(day[p]).date) = 1
  /\ OnePerDate(old) => OnePerDate(AtPath)

\* The loaded list held the new entry's date twice or more.
C4_Witness ==
  \E p \in Procs :
    /\ Saving(p)
    /\ outcome[p] = "ok"
    /\ CountDate(rows[p], Val(day[p]).date) >= 2

\* The places of E whose entry has another date than e.
KeptPlaces(E, e) == {j \in 1..Len(E) : E[j].date # e.date}
\* The i-th of them, counted from the first.
KeptPlace(E, e, i) ==
  CHOOSE j \in KeptPlaces(E, e) :
    Cardinality({k \in KeptPlaces(E, e) : k < j}) = i - 1

\* C5: the list after the filter and the append is the loaded list without
\* the entries of the new entry's date, the others in their order and
\* unchanged, and the new entry last, whatever its date.
C5_FilterKeepsOrderAppendsLast ==
  \A p \in Procs :
    Saving(p) =>
      LET E == rows[p]
          e == Val(day[p])
          R == Val(days[p])
      IN /\ Len(R) = Cardinality(KeptPlaces(E, e)) + 1
         /\ R[Len(R)] = e
         /\ \A i \in 1..(Len(R) - 1) : R[i] = E[KeptPlace(E, e, i)]

\* An entry was dropped, two were kept, and the new entry, last, has an
\* earlier date than one it follows.
C5_Witness ==
  \E p \in Procs :
    /\ Saving(p)
    /\ Len(rows[p]) = 3
    /\ Len(Val(days[p])) = 3
    /\ \E i \in 1..2 : DateBefore(Val(day[p]).date, Val(days[p])[i].date)

\* C6: render of a path that names no file ends without a chart and
\* without an error.
C6_RenderWithoutFile ==
  \A p \in Procs :
    (cmd[p] = "render" /\ old = <<>>) =>
      /\ outcome[p] \in {"running", "ok"}
      /\ X[p] = None

\* The first data line of the content that does not parse, 0 when all do.
BadPlaces(content) ==
  {i \in 2..Len(content) : RowError(Some(HeaderLine), content[i]) # ""}
FirstBad(content) ==
  IF BadPlaces(content) = {} THEN 0
  ELSE CHOOSE i \in BadPlaces(content) : \A j \in BadPlaces(content) : i <= j

\* C7: a file with a line whose date or mood does not parse, wherever the
\* line is, is never loaded: the read raises at that line, days is never
\* assigned (not even the entries before it), nothing is drawn, and the log
\* command reaches neither its temporary file nor the path.
C7_LoadAllOrNothing ==
  \A p \in Procs :
    (Invoked(p) /\ FirstBad(old) # 0) =>
      /\ pc[p] \in {"enter", "open", "read"}
      /\ days[p] = None
      /\ X[p] = None
      /\ files[Tmp(p)] = <<>>
      /\ PathUnchanged
      /\ rpos[p] <= FirstBad(old)
      /\ rpos[p] = FirstBad(old) => outcome[p] \in {"ValueError", "KeyError"}

\* The log command's load raised at a line in the middle of the file,
\* after it had built an entry.
C7_Witness ==
  \E p \in Procs :
    /\ cmd[p] = "log"
    /\ outcome[p] \in {"ValueError", "KeyError"}
    /\ Len(rows[p]) >= 1
    /\ rpos[p] < Len(old)

\* The entries of ds on day-of-month dd and month mm.
OnCell(ds, dd, mm) ==
  {i \in 1..Len(ds) : ds[i].date.day = dd /\ ds[i].date.month = mm}
LastOnCell(ds, dd, mm) ==
  CHOOSE i \in OnCell(ds, dd, mm) : \A j \in OnCell(ds, dd, mm) : j <= i

\* C8: the matrix has 31 rows of 12 cells; cell [r][c] is the color of the
\* last entry on day r+1 of month c+1, whatever its year, and black when
\* there is none: all black for no entries, and for the one entry
\* 2019-01-14/amazing that color in [13][0] and black elsewhere.
C8_YearGrid ==
  \A p \in Procs :
    X[p] # None =>
      LET M == Val(X[p])
          ds == Val(days[p])
      IN /\ DOMAIN M = 0..30
         /\ \A r \in 0..30 : DOMAIN M[r] = 0..11
         /\ \A r \in 0..30, c \in 0..11 :
              M[r][c] = IF OnCell(ds, r + 1, c + 1) = {} THEN black
                        ELSE ds[LastOnCell(ds, r + 1, c + 1)].mood.color
         /\ ds = <<>> => \A r \in 0..30, c \in 0..11 : M[r][c] = <<0, 0, 0>>
         /\ (Len(ds) = 1 /\ ds[1].date = [year |-> 2019, month |-> 1, day |-> 14]
               /\ ds[1].mood.name = "amazing") =>
              \A r \in 0..30, c \in 0..11 :
                M[r][c] = IF r = 13 /\ c = 0 THEN <<255, 0, 255>> ELSE <<0, 0, 0>>

\* Two entries of different years and colors on one cell were drawn.
C8_Witness ==
  \E p \in Procs :
    /\ X[p] # None
    /\ Len(Val(days[p])) = 2
    /\ Val(days[p])[1].date.year # Val(days[p])[2].date.year
    /\ Val(days[p])[1].date.day = Val(days[p])[2].date.day
    /\ Val(days[p])[1].date.month = Val(days[p])[2].date.month
    /\ Val(days[p])[1].mood # Val(days[p])[2].mood

InvalidDate(in) == in.date # <<>> /\ ~IsIsoDate(in.date)
InvalidMood(in) == ~IsMoodName(in.mood)

\* C9: a typed date that is not empty and not a date, or a typed mood that
\* is no member's name, ends the log command with status 1 at that
\* question: no question is asked twice, none after it, the file is not
\* opened, days is not assigned, and the path and the temporary file are
\* untouched.
C9_InvalidInputExits ==
  \A p \in Procs :
    (cmd[p] = "log" /\ ~Running(p, "enter")
       /\ (InvalidDate(stdin[p]) \/ InvalidMood(stdin[p]))) =>
      /\ outcome[p] = "exit1"
      /\ pc[p] = "enter"
      /\ prompts[p] = IF InvalidDate(stdin[p]) THEN <<"date">> ELSE <<"date", "mood">>
      /\ day[p] = None
      /\ fd[p] = NoFile
      /\ days[p] = None
      /\ files[Tmp(p)] = <<>>
      /\ PathUnchanged

\* The log command ended at the mood question with a file at the path.
C9_Witness ==
  \E p \in Procs :
    /\ outcome[p] = "exit1"
    /\ prompts[p] = <<"date", "mood">>
    /\ old # <<>>

\* C10: when two log commands for different dates have both ended well, the
\* file is the complete output of one of them, with no line of the other's
\* output mixed in: the one whose move ended last.
C10_LastWriterWins ==
  ((\A p \in Procs : cmd[p] = "log" /\ outcome[p] = "ok")
     /\ Val(day[1]).date # Val(day[2]).date) =>
    /\ AtPath \in {Complete(Val(days[p])) : p \in Procs}
    /\ (\A p \in Procs : cfd[p] = NoFile) =>
         AtPath = Complete(Val(days[replaced[Len(replaced)]]))

====
